---- MODULE Spec2Model ----
(***************************************************************************)
(* Transcription orchestration of sale-smell.                              *)
(*                                                                         *)
(* Two programs are modelled.  The server-side run is one call of          *)
(* TranscriptionService.startTranscription, which drives                   *)
(* AssemblyAIService.uploadAndTranscribe and                               *)
(* AssemblyAIService.pollTranscriptionStatus against the remote provider.  *)
(* The client-side run is the useTranscription hook with the effects of    *)
(* EnhancedFileUpload.  The provider is the environment: every remote call *)
(* may succeed or fail, and the job status only moves forward.             *)
(***************************************************************************)
EXTENDS Integers, Sequences, FiniteSets

(***************************************************************************)
(* Program constants.                                                      *)
(***************************************************************************)
maxAttempts == 60

maxRetries == 3

retryDelay == 1000

maxSize == 104857600

supportedTypes == {"audio/mp3", "audio/wav", "audio/m4a", "audio/mpeg"}

(***************************************************************************)
(* Inputs.  NoFile is the missing file; the other files are a media type   *)
(* and a size in bytes.                                                    *)
(***************************************************************************)
NoFile == [type |-> "none", size |-> 0]

Files ==
    {NoFile} \cup
    [type : {"audio/mpeg", "video/mp4"}, size : {0, maxSize, maxSize + 1}]

\* Transport status of a failed remote call; 0 is a failure without response.
TransportFailures == {0, 401}

\* What the provider may report for a failed job and for a completed one.
ProviderErrors == {"", "provider: bad audio"}

ProviderTexts == {"", "hello world"}

(***************************************************************************)
(* Errors: the transport status (error.response.status, 0 when absent) and *)
(* the message as the sequence of its ': '-separated parts.                *)
(***************************************************************************)
NoError == [status |-> 0, message |-> <<>>]

NewError(parts) == [status |-> 0, message |-> parts]

TransportError(st) == [status |-> st, message |-> <<"transport failure">>]

TimeoutError ==
    NewError(<<"Transcription timeout - exceeded maximum polling attempts">>)

handleError(error, context) ==
    IF error.status # 0
    THEN CASE error.status = 401 ->
                NewError(<<"Invalid API key. Please check your AssemblyAI credentials.">>)
           [] error.status = 403 ->
                NewError(<<"Access denied. Please check your API permissions.">>)
           [] error.status = 429 ->
                NewError(<<"Rate limit exceeded. Please try again later.">>)
           [] error.status = 400 ->
                NewError(<<"Invalid request. Please check your audio file format.">>)
           [] error.status = 500 ->
                NewError(<<"AssemblyAI service error. Please try again later.">>)
           [] OTHER ->
                NewError(<<context>> \o
                         (IF error.message # <<>> THEN error.message
                                                  ELSE <<"Unknown error">>))
    ELSE IF error.message # <<>>
         THEN NewError(<<context>> \o error.message)
         ELSE NewError(<<context>>)

\* The error retryOperation raises once every attempt has failed; last is
\* lastError, the error of the final attempt.
RetryExhausted(errorMessage, last) ==
    NewError(<<errorMessage>> \o
             (IF last.message # <<>> THEN last.message ELSE <<"Unknown error">>))

\* Mutant: the same wait after every failure.
backoff_Constant(k) == retryDelay

\* The wait of retryOperation after the failure of attempt k.
backoff(k) == retryDelay * 2 ^ (k - 1)

\* What a call of uploadAndTranscribe or getTranscriptionStatus threw: the
\* step that failed, the transport status of the failure (0 when it had
\* none) and the error the caller receives.
NoThrow == [op |-> "none", status |-> 0, error |-> NoError]

Throw(op, st, error) == [op |-> op, status |-> st, error |-> error]

(***************************************************************************)
(* AssemblyAIService.validateAudioFile: the error it throws, or NoError.   *)
(***************************************************************************)
\* Mutant: if (file.size >= maxSize).
validateAudioFile_Inclusive(f) ==
    IF f = NoFile THEN NewError(<<"No file provided">>)
    ELSE IF f.type \notin supportedTypes THEN NewError(<<"Unsupported file type">>)
    ELSE IF f.size >= maxSize THEN NewError(<<"File too large. Maximum size is 100MB">>)
    ELSE IF f.size = 0 THEN NewError(<<"File is empty">>)
    ELSE NoError

validateAudioFile(f) ==
    IF f = NoFile THEN NewError(<<"No file provided">>)
    ELSE IF f.type \notin supportedTypes THEN NewError(<<"Unsupported file type">>)
    ELSE IF f.size > maxSize THEN NewError(<<"File too large. Maximum size is 100MB">>)
    ELSE IF f.size = 0 THEN NewError(<<"File is empty">>)
    ELSE NoError

(***************************************************************************)
(* The provider's job.  A status never reverts.                            *)
(***************************************************************************)
NoJob == [status |-> "none", text |-> "", error |-> ""]

Terminal == {"completed", "error"}

Rank(s) ==
    CASE s = "queued" -> 1
      [] s = "processing" -> 2
      [] s \in Terminal -> 3
      [] OTHER -> 0

\* The records a fetch may return when the job was last seen as j.
JobRecords(j) ==
    IF j.status \in Terminal THEN {j}
    ELSE {[status |-> s, text |-> "", error |-> ""] :
             s \in {t \in {"queued", "processing"} : Rank(t) >= Rank(j.status)}}
         \cup {[status |-> "completed", text |-> t, error |-> ""] : t \in ProviderTexts}
         \cup {[status |-> "error", text |-> "", error |-> e] : e \in ProviderErrors}

(***************************************************************************)
(* AssemblyAIService.mapTranscriptionToResult.  A field of the provider's  *)
(* transcript that may hold an array is Null or Array(items); a segment    *)
(* whose sentiment is missing or not a string has the sentiment "".        *)
(* speaker_labels may also be the flag of the request, or an object, with  *)
(* or without segments; auto_highlights_result is Null or an object whose  *)
(* results are Null or an array.                                           *)
(***************************************************************************)
Null == [isArray |-> FALSE, items |-> <<>>]

Array(items) == [isArray |-> TRUE, items |-> items]

SpeakerLabelsFlag == [isArray |-> FALSE, items |-> <<>>, flag |-> TRUE]

SpeakerLabelsObject(segments) ==
    [isArray |-> FALSE, items |-> <<>>, segments |-> segments]

HighlightsResult(results) ==
    [isArray |-> FALSE, items |-> <<>>, results |-> results]

\* transcription.speaker_labels.segments is there, and transcription.
\* auto_highlights_result.results is an array.
HasSegments(labels) ==
    "segments" \in DOMAIN labels /\ labels.segments.isArray

HasResults(highlights) ==
    "results" \in DOMAIN highlights /\ highlights.results.isArray

\* transcription.pii_redaction_results is an array, and transcription.
\* auto_highlights_result has an array of results; a transcript need not
\* have either field.
HasRedactions(transcription) ==
    /\ "pii_redaction_results" \in DOMAIN transcription
    /\ transcription.pii_redaction_results.isArray

HasHighlights(transcription) ==
    /\ "auto_highlights_result" \in DOMAIN transcription
    /\ HasResults(transcription.auto_highlights_result)

SentimentLabels == {"POSITIVE", "NEGATIVE", "NEUTRAL", "positive", "MIXED", ""}

toLowerCase(label) ==
    CASE label \in {"POSITIVE", "positive"} -> "positive"
      [] label \in {"NEGATIVE", "negative"} -> "negative"
      [] label \in {"NEUTRAL", "neutral"} -> "neutral"
      [] label \in {"MIXED", "mixed"} -> "mixed"
      [] OTHER -> label

\* The reduce over the segments: acc[key] = (acc[key] || 0) + 1 for the
\* lower-cased sentiment of every segment that has one.
RECURSIVE sentimentCounts(_)
sentimentCounts(segments) ==
    IF segments = <<>>
    THEN [key \in {"positive", "negative", "neutral", "mixed"} |-> 0]
    ELSE LET n == Len(segments)
             acc == sentimentCounts(SubSeq(segments, 1, n - 1))
             segment == segments[n]
         IN  IF segment.sentiment # ""
             THEN [acc EXCEPT ![toLowerCase(segment.sentiment)] = @ + 1]
             ELSE acc

NoSentiment == [isNull |-> TRUE]

\* Mutant: a tie between positive and negative counts as POSITIVE.
mapSentiment_TiePositive(results) ==
    LET segments == [i \in 1 .. Len(results) |->
                        [text |-> results[i].text, sentiment |-> results[i].sentiment]]
        counts == sentimentCounts(segments)
        scores == [positive |-> counts["positive"],
                   negative |-> counts["negative"],
                   neutral |-> counts["neutral"]]
        total == scores.positive + scores.negative + scores.neutral
    IN  [overall |-> IF total > 0
                     THEN IF scores.positive >= scores.negative THEN "POSITIVE"
                          ELSE "NEGATIVE"
                     ELSE "NEUTRAL",
         scores |-> scores,
         segments |-> segments]

\* result.sentiment for the array sentiment_analysis_results.
mapSentiment(results) ==
    LET segments == [i \in 1 .. Len(results) |->
                        [text |-> results[i].text, sentiment |-> results[i].sentiment]]
        counts == sentimentCounts(segments)
        scores == [positive |-> counts["positive"],
                   negative |-> counts["negative"],
                   neutral |-> counts["neutral"]]
        total == scores.positive + scores.negative + scores.neutral
    IN  [overall |-> IF total > 0
                     THEN IF scores.positive > scores.negative THEN "POSITIVE"
                          ELSE IF scores.negative > scores.positive THEN "NEGATIVE"
                          ELSE "NEUTRAL"
                     ELSE "NEUTRAL",
         scores |-> scores,
         segments |-> segments]

mapSegments(items) ==
    [i \in 1 .. Len(items) |->
        [speaker |-> items[i].speaker, text |-> items[i].text,
         start |-> items[i].start, end |-> items[i].end,
         confidence |-> items[i].confidence]]

mapRedactions(items) ==
    [i \in 1 .. Len(items) |->
        [text |-> items[i].text, type |-> items[i].type,
         confidence |-> items[i].confidence,
         start |-> items[i].start, end |-> items[i].end]]

\* timestamps: highlight.timestamps || []
mapHighlights(items) ==
    [i \in 1 .. Len(items) |->
        [text |-> items[i].text, count |-> items[i].count, rank |-> items[i].rank,
         timestamps |-> IF items[i].timestamps.isArray
                        THEN items[i].timestamps.items ELSE <<>>]]

\* The first shape of the speaker segments that is there.
mapSpeakers(transcription) ==
    IF transcription.utterances.isArray
    THEN mapSegments(transcription.utterances.items)
    ELSE IF transcription.speaker_labels.isArray
    THEN mapSegments(transcription.speaker_labels.items)
    ELSE IF HasSegments(transcription.speaker_labels)
    THEN mapSegments(transcription.speaker_labels.segments.items)
    ELSE <<>>

\* Mutant: the speaker segments are left out of the result.
mapTranscriptionToResult_NoSpeakers(transcription) ==
    [status |-> transcription.status,
     text |-> transcription.text,
     error |-> transcription.error,
     speakers |-> <<>>,
     sentiment |-> IF transcription.sentiment_analysis_results.isArray
                   THEN mapSentiment(transcription.sentiment_analysis_results.items)
                   ELSE NoSentiment,
     piiRedactions |-> IF HasRedactions(transcription)
                       THEN mapRedactions(transcription.pii_redaction_results.items)
                       ELSE <<>>,
     autoHighlights |-> IF HasHighlights(transcription)
                        THEN mapHighlights(transcription.auto_highlights_result.results.items)
                        ELSE <<>>]

\* Mutant: a flat speaker_labels array is looked at before the utterances.
mapTranscriptionToResult_LabelsFirst(transcription) ==
    [status |-> transcription.status,
     text |-> transcription.text,
     error |-> transcription.error,
     speakers |-> IF transcription.speaker_labels.isArray
                  THEN mapSegments(transcription.speaker_labels.items)
                  ELSE mapSpeakers(transcription),
     sentiment |-> IF transcription.sentiment_analysis_results.isArray
                   THEN mapSentiment(transcription.sentiment_analysis_results.items)
                   ELSE NoSentiment,
     piiRedactions |-> IF HasRedactions(transcription)
                       THEN mapRedactions(transcription.pii_redaction_results.items)
                       ELSE <<>>,
     autoHighlights |-> IF HasHighlights(transcription)
                        THEN mapHighlights(transcription.auto_highlights_result.results.items)
                        ELSE <<>>]

\* Mutant: piiRedactions and autoHighlights are set only when the provider
\* sent the array, as summary is.
mapTranscriptionToResult_AbsentWhenMissing(transcription) ==
    [k \in {"status", "text", "error", "speakers", "sentiment"}
           \cup (IF HasRedactions(transcription)
                 THEN {"piiRedactions"} ELSE {})
           \cup (IF HasHighlights(transcription)
                 THEN {"autoHighlights"} ELSE {}) |->
        CASE k = "status" -> transcription.status
          [] k = "text" -> transcription.text
          [] k = "error" -> transcription.error
          [] k = "speakers" -> mapSpeakers(transcription)
          [] k = "sentiment" ->
               IF transcription.sentiment_analysis_results.isArray
               THEN mapSentiment(transcription.sentiment_analysis_results.items)
               ELSE NoSentiment
          [] k = "piiRedactions" ->
               mapRedactions(transcription.pii_redaction_results.items)
          [] k = "autoHighlights" ->
               mapHighlights(transcription.auto_highlights_result.results.items)]

mapTranscriptionToResult(transcription) ==
    [status |-> transcription.status,
     text |-> transcription.text,
     error |-> transcription.error,
     speakers |-> mapSpeakers(transcription),
     sentiment |-> IF transcription.sentiment_analysis_results.isArray
                   THEN mapSentiment(transcription.sentiment_analysis_results.items)
                   ELSE NoSentiment,
     piiRedactions |-> IF HasRedactions(transcription)
                       THEN mapRedactions(transcription.pii_redaction_results.items)
                       ELSE <<>>,
     autoHighlights |-> IF HasHighlights(transcription)
                        THEN mapHighlights(transcription.auto_highlights_result.results.items)
                        ELSE <<>>]

\* What a transcript may carry besides status, text and error: nothing
\* before the job has completed, then the utterances and, or not, the
\* sentiment results.
NoFeatures ==
    [utterances |-> Null, speaker_labels |-> Null, sentiment_analysis_results |-> Null]

Features ==
    {NoFeatures,
     [NoFeatures EXCEPT
        !.utterances = Array(<<[speaker |-> "A", text |-> "hello", start |-> 0,
                                end |-> 5, confidence |-> 90],
                               [speaker |-> "B", text |-> "world", start |-> 5,
                                end |-> 9, confidence |-> 80]>>),
        !.speaker_labels = SpeakerLabelsFlag],
     [NoFeatures EXCEPT
        !.speaker_labels = Array(<<[speaker |-> "B", text |-> "hello world",
                                    start |-> 0, end |-> 9, confidence |-> 70]>>),
        !.sentiment_analysis_results =
            Array(<<[text |-> "hello world", sentiment |-> "POSITIVE"]>>)]}

\* The features a transcript with the status, text and error of r may carry,
\* and the transcript that carries f.
FeaturesOf(r) == IF r.status = "completed" THEN Features ELSE {NoFeatures}

Transcript(r, f) ==
    [status |-> r.status, text |-> r.text, error |-> r.error,
     utterances |-> f.utterances, speaker_labels |-> f.speaker_labels,
     sentiment_analysis_results |-> f.sentiment_analysis_results]

\* The transcripts client.transcripts.get may return when the job was last
\* seen as j.
Transcripts(j) ==
    UNION {{Transcript(r, f) : f \in FeaturesOf(r)} : r \in JobRecords(j)}

\* Mutant: the percentages of queued and processing exchanged.
calculateProgress_Swapped(result) ==
    IF result.status = "completed" THEN 100
    ELSE IF result.status = "error" THEN 0
    ELSE IF result.status = "queued" THEN 50
    ELSE IF result.status = "processing" THEN 10
    ELSE 0

\* Mutant: a processing job that already has some text is at 90.
calculateProgress_ByText(result) ==
    IF result.status = "completed" THEN 100
    ELSE IF result.status = "error" THEN 0
    ELSE IF result.status = "queued" THEN 10
    ELSE IF result.status = "processing" THEN IF result.text # "" THEN 90 ELSE 50
    ELSE 0

calculateProgress(result) ==
    IF result.status = "completed" THEN 100
    ELSE IF result.status = "error" THEN 0
    ELSE IF result.status = "queued" THEN 10
    ELSE IF result.status = "processing" THEN 50
    ELSE 0

\* 20 + progress * 0.8, exact for the multiples of ten calculateProgress gives.
adjustedProgress(progress) == 20 + (progress * 8) \div 10

(***************************************************************************)
(* The caller's onProgress, observed: the last callback, whether some      *)
(* callback reported less than the one before it (over all callbacks and   *)
(* over those whose status is not 'error'), how many 'completed' and       *)
(* 'error' callbacks fired, and whether one fired after a terminal one.    *)
(***************************************************************************)
NoCallbacks ==
    [lastStatus |-> "none", lastPct |-> 0, decreased |-> FALSE,
     okPct |-> 0, okDecreased |-> FALSE,
     completed |-> 0, errors |-> 0, afterTerminal |-> FALSE]

onProgress(c, status, pct) ==
    [lastStatus |-> status,
     lastPct |-> pct,
     decreased |-> c.decreased \/ (c.lastStatus # "none" /\ pct < c.lastPct),
     okPct |-> IF status # "error" THEN pct ELSE c.okPct,
     okDecreased |-> c.okDecreased \/ (status # "error" /\ pct < c.okPct),
     completed |-> c.completed + (IF status = "completed" THEN 1 ELSE 0),
     errors |-> c.errors + (IF status = "error" THEN 1 ELSE 0),
     afterTerminal |-> c.afterTerminal \/ c.completed + c.errors > 0]

(***************************************************************************)
(* useTranscription.  MaxRuns calls of startTranscription or checkStatus   *)
(* can be in flight at once and MaxLaunches calls are made in all.         *)
(***************************************************************************)
MaxRuns == 1

MaxLaunches == 2

Runs == 1 .. MaxRuns

IdleState ==
    [isTranscribing |-> FALSE, progress |-> 0, status |-> "idle", message |-> "",
     result |-> NoJob, error |-> "null", transcriptionId |-> "null"]

\* One call of startTranscription or checkStatus.  signal is the AbortSignal
\* the request in flight was given: "current" is the signal of the controller
\* abortControllerRef.current points to, "aborted" a signal that was aborted
\* while the request was in flight, "none" no signal or the signal of a
\* controller the ref has dropped without aborting it.
NoRun ==
    [pc |-> "free", kind |-> "none", attempts |-> 0, signal |-> "none",
     job |-> NoJob, fetches |-> 0, failed |-> FALSE, cancelled |-> FALSE,
     how |-> "none"]

InFlight == {"upload", "fetch", "wait", "retryWait"}

\* What a failed request to /api/upload reports.
RouteErrors == {"Failed to get transcription status"}

TimeoutMessage == "Transcription timeout - exceeded maximum polling attempts"

VARIABLES
    file,          \* the file startTranscription is called with
    pc,            \* where the run of startTranscription stands
    attempts,      \* pollTranscriptionStatus: let attempts
    attempt,       \* retryOperation: let attempt
    audioUrl,      \* uploadAndTranscribe: let audioUrl
    transcriptionId,  \* startTranscription: const transcriptionId
    job,           \* the provider's job, the transcript as last fetched
    outcome,       \* how startTranscription ended: resolved or raised
    callbacks,     \* the caller's onProgress, observed
    uploadCalls,   \* client.files.upload calls
    createCalls,   \* client.transcripts.create calls
    fetchCalls,    \* client.transcripts.get calls
    statusCalls,   \* getTranscriptionStatus calls of the polling loop
    sawFailure,    \* some client.transcripts.get call failed
    sawSuccess,    \* some client.transcripts.get call succeeded
    lastError,     \* retryOperation: let lastError
    delays,        \* retryOperation: the waits of the call under way
    thrown,        \* what uploadAndTranscribe/getTranscriptionStatus last threw
    component,     \* the program this behaviour runs: the service or the hook
    state,         \* useTranscription: the TranscriptionState
    abortControllerRef,  \* useTranscription: abortControllerRef.current
    currentFileRef,      \* useTranscription: currentFileRef.current
    runs,          \* useTranscription: the calls of startTranscription/checkStatus
    launches,      \* useTranscription: calls launched so far
    completeCalls, \* EnhancedFileUpload: onTranscriptionComplete calls
    errorCalls,    \* EnhancedFileUpload: onTranscriptionError calls
    verdicts,      \* what each validator has said of the file
    transcript,    \* mapTranscriptionToResult: the argument
    normalized,    \* mapTranscriptionToResult: the value returned
    apiKey,        \* process.env.ASSEMBLYAI_API_KEY
    instances,     \* AssemblyAIService objects constructed
    requests,      \* requests the upload route has handled
    response,      \* the last response of the upload route
    calls,         \* concurrent calls of startTranscription
    options,       \* uploadAndTranscribe: the parameter options
    request        \* uploadAndTranscribe: const transcriptionRequest

service ==
    <<file, pc, attempts, attempt, audioUrl, transcriptionId, job,
      outcome, callbacks, uploadCalls, createCalls, fetchCalls, statusCalls,
      sawFailure, sawSuccess, lastError, delays, thrown>>

retrying == <<lastError, delays>>

hook ==
    <<state, abortControllerRef, currentFileRef, runs, launches,
      completeCalls, errorCalls>>

building == <<options, request>>

others ==
    <<verdicts, transcript, normalized, apiKey, instances, requests, response,
      calls, building>>

vars == <<component, service, hook, others>>

counters == <<uploadCalls, createCalls, fetchCalls, statusCalls>>

\* The verdicts of the three validators on a file: "none" before a validator
\* has run, then "accept" or "reject".
NoVerdicts == [ui |-> "none", route |-> "none", client |-> "none"]

NotNormalized == [status |-> "none"]

\* A response of the upload route: the HTTP status, success, and the error
\* message as its parts.
NoResponse == [status |-> 0, success |-> FALSE, error |-> <<>>]

\* The options of uploadAndTranscribe: a field is "undefined" when the caller
\* left it out, else the value passed; and the request before it is built.
NoOptions ==
    [speakerLabels |-> "undefined", sentimentAnalysis |-> "undefined",
     summarization |-> "undefined", piiRedaction |-> "undefined",
     autoHighlights |-> "undefined", languageCode |-> "undefined"]

NoRequest == [audio_url |-> "null"]

RequestIdle ==
    /\ options = NoOptions
    /\ request = NoRequest

OthersIdle ==
    /\ verdicts = NoVerdicts
    /\ transcript = [status |-> "none"]
    /\ normalized = NotNormalized
    /\ apiKey = "key"
    /\ instances = 0
    /\ requests = 0
    /\ response = NoResponse
    /\ RequestIdle
    /\ calls = <<>>

\* The variables of a program that is not running.
ServiceIdle ==
    /\ pc = "idle"
    /\ attempts = 0
    /\ attempt = 1
    /\ audioUrl = "null"
    /\ transcriptionId = "null"
    /\ job = NoJob
    /\ outcome = [kind |-> "none", error |-> NoError, result |-> NoJob]
    /\ callbacks = NoCallbacks
    /\ uploadCalls = 0
    /\ createCalls = 0
    /\ fetchCalls = 0
    /\ statusCalls = 0
    /\ sawFailure = FALSE
    /\ sawSuccess = FALSE
    /\ lastError = NoError
    /\ delays = <<>>
    /\ thrown = NoThrow

HookIdle ==
    /\ state = IdleState
    /\ abortControllerRef = "null"
    /\ currentFileRef = "null"
    /\ runs = [r \in Runs |-> NoRun]
    /\ launches = 0
    /\ completeCalls = 0
    /\ errorCalls = 0

Init ==
    /\ component \in {"service", "hook"}
    /\ file \in IF component = "service" THEN Files ELSE {NoFile}
    /\ ServiceIdle
    /\ HookIdle
    /\ OthersIdle

(***************************************************************************)
(* TranscriptionService.startTranscription, the ways it ends.              *)
(***************************************************************************)
\* catch (error): onProgress('error', 0, message); throw error
Raise(error, c) ==
    /\ callbacks' = onProgress(c, "error", 0)
    /\ outcome' = [kind |-> "raised", error |-> error, result |-> NoJob]
    /\ pc' = "raised"

\* Mutant: step 3 without if (!result.text).
Finish_NoTextCheck(result, c) ==
    IF result.status = "error"
    THEN Raise(NewError(<<IF result.error # "" THEN result.error
                          ELSE "Transcription failed">>), c)
    ELSE /\ callbacks' = onProgress(c, "completed", 100)
         /\ outcome' = [kind |-> "resolved", error |-> NoError, result |-> result]
         /\ pc' = "resolved"

\* Step 3: validate the polled result and return it.
Finish(result, c) ==
    IF result.status = "error"
    THEN Raise(NewError(<<IF result.error # "" THEN result.error
                          ELSE "Transcription failed">>), c)
    ELSE IF result.text = ""
    THEN Raise(NewError(<<"Transcription completed but no text was generated">>), c)
    ELSE /\ callbacks' = onProgress(c, "completed", 100)
         /\ outcome' = [kind |-> "resolved", error |-> NoError, result |-> result]
         /\ pc' = "resolved"

\* startTranscription up to its first suspension: the 'uploading' callback and
\* the validation at the head of uploadAndTranscribe.
StartTranscription ==
    /\ component = "service"
    /\ pc = "idle"
    /\ LET c == onProgress(callbacks, "uploading", 10)
           invalid == validateAudioFile(file)
           error == handleError(invalid, "Failed to upload and transcribe audio file")
       IN  IF invalid # NoError
           THEN /\ Raise(error, c)
                /\ thrown' = Throw("validate", 0, error)
           ELSE /\ callbacks' = c
                /\ pc' = "upload"
                /\ UNCHANGED <<outcome, thrown>>
    /\ UNCHANGED <<file, attempts, attempt, audioUrl, transcriptionId,
                   job, counters, sawFailure, sawSuccess, retrying,
                   component, hook, others>>

\* Mutant: a failed upload is logged and the job created all the same.
Upload_IgnoresFailure ==
    /\ pc = "upload"
    /\ uploadCalls' = uploadCalls + 1
    /\ \/ audioUrl' = "url"
       \/ UNCHANGED audioUrl
    /\ pc' = "create"
    /\ attempt' = 1
    /\ UNCHANGED <<file, attempts, transcriptionId, job, createCalls,
                   fetchCalls, statusCalls, sawFailure, sawSuccess, callbacks,
                   outcome, retrying, thrown, component, hook, others>>

\* Mutant: client.files.upload goes through retryOperation like the other calls.
Upload_Retried ==
    /\ pc = "upload"
    /\ uploadCalls' = uploadCalls + 1
    /\ \/ /\ audioUrl' = "url"
          /\ pc' = "create"
          /\ attempt' = 1
          /\ UNCHANGED <<callbacks, outcome, thrown>>
       \/ \E st \in TransportFailures :
             IF uploadCalls + 1 < maxRetries
             THEN UNCHANGED <<pc, attempt, audioUrl, callbacks, outcome, thrown>>
             ELSE LET error == handleError(TransportError(st),
                                           "Failed to upload and transcribe audio file")
                  IN  /\ Raise(error, callbacks)
                      /\ thrown' = Throw("upload", st, error)
                      /\ UNCHANGED <<attempt, audioUrl>>
    /\ UNCHANGED <<file, attempts, transcriptionId, job, createCalls, fetchCalls,
                   statusCalls, sawFailure, sawSuccess, retrying,
                   component, hook, others>>

\* fileToBuffer, then client.files.upload, which is not retried.
Upload ==
    /\ pc = "upload"
    /\ \/ LET error == handleError(NewError(<<"Failed to convert file to buffer">>),
                                    "Failed to upload and transcribe audio file")
          IN  /\ Raise(error, callbacks)
              /\ thrown' = Throw("convert", 0, error)
              /\ UNCHANGED <<uploadCalls, attempt, audioUrl>>
       \/ /\ uploadCalls' = uploadCalls + 1
          /\ \/ /\ audioUrl' = "url"
                /\ pc' = "create"
                /\ attempt' = 1
                /\ UNCHANGED <<callbacks, outcome, thrown>>
             \/ \E st \in TransportFailures :
                   LET error == handleError(TransportError(st),
                                            "Failed to upload and transcribe audio file")
                   IN  /\ Raise(error, callbacks)
                       /\ thrown' = Throw("upload", st, error)
                       /\ UNCHANGED <<attempt, audioUrl>>
    /\ UNCHANGED <<file, attempts, transcriptionId, job, createCalls, fetchCalls,
                   statusCalls, sawFailure, sawSuccess, retrying,
                   component, hook, others>>

\* One attempt of retryOperation(() => client.transcripts.create(request)).
Create ==
    /\ pc = "create"
    /\ createCalls' = createCalls + 1
    /\ \/ /\ job' = [status |-> "queued", text |-> "", error |-> ""]
          /\ transcriptionId' = "id"
          /\ callbacks' = onProgress(callbacks, "processing", 20)
          /\ pc' = "poll"
          /\ attempts' = 0
          /\ attempt' = 1
          /\ lastError' = NoError
          /\ delays' = <<>>
          /\ UNCHANGED <<outcome, thrown>>
       \/ \E st \in TransportFailures :
             /\ lastError' = TransportError(st)
             /\ IF attempt = maxRetries
                THEN LET error == handleError(
                                    RetryExhausted("Failed to submit transcription request",
                                                   TransportError(st)),
                                    "Failed to upload and transcribe audio file")
                     IN  /\ Raise(error, callbacks)
                         /\ thrown' = Throw("create", st, error)
                         /\ UNCHANGED <<job, transcriptionId, attempts, attempt, delays>>
                ELSE /\ attempt' = attempt + 1
                     /\ delays' = Append(delays, backoff(attempt))
                     /\ UNCHANGED <<job, transcriptionId, attempts, pc, callbacks,
                                    outcome, thrown>>
    /\ UNCHANGED <<file, audioUrl, uploadCalls, fetchCalls, statusCalls, sawFailure,
                   sawSuccess, component, hook, others>>

(***************************************************************************)
(* AssemblyAIService.pollTranscriptionStatus.                              *)
(***************************************************************************)
\* Mutant: while (attempts <= maxAttempts).
LoopCondition_OffByOne(a) == a <= maxAttempts

LoopCondition(a) == a < maxAttempts

\* Back to the head of the while loop with attempts = a.
LoopBack(a, c) ==
    /\ attempts' = a
    /\ attempt' = 1
    /\ IF LoopCondition(a)
       THEN /\ pc' = "poll"
            /\ callbacks' = c
            /\ UNCHANGED outcome
       ELSE Raise(TimeoutError, c)

\* Mutant: if (attempts > this.maxRetries).
PollCatch_OffByOne(error, c) ==
    IF attempts > maxRetries
    THEN /\ Raise(handleError(error, "Failed to poll transcription status"), c)
         /\ UNCHANGED <<attempts, attempt>>
    ELSE LoopBack(attempts + 1, c)

\* catch (error) of the loop body.
PollCatch(error, c) ==
    IF attempts >= maxRetries
    THEN /\ Raise(handleError(error, "Failed to poll transcription status"), c)
         /\ UNCHANGED <<attempts, attempt>>
    ELSE LoopBack(attempts + 1, c)

\* The loop body after getTranscriptionStatus returned result.
PollResult(result) ==
    LET c == onProgress(callbacks, result.status,
                        adjustedProgress(calculateProgress(result)))
    IN  IF result.status = "completed"
        THEN /\ Finish(result, c)
             /\ UNCHANGED <<attempts, attempt>>
        ELSE IF result.status = "error"
        THEN PollCatch(NewError(<<IF result.error # "" THEN result.error
                                  ELSE "Transcription failed">>), c)
        ELSE LoopBack(attempts + 1, c)

\* One attempt of retryOperation(() => client.transcripts.get(id)) inside
\* getTranscriptionStatus, with what the loop does once the call has settled.
Poll ==
    /\ pc = "poll"
    /\ fetchCalls' = fetchCalls + 1
    /\ statusCalls' = IF attempt = 1 THEN statusCalls + 1 ELSE statusCalls
    /\ \/ \E transcription \in Transcripts(job) :
             /\ job' = transcription
             /\ sawSuccess' = TRUE
             /\ lastError' = NoError
             /\ delays' = <<>>
             /\ thrown' = NoThrow
             /\ UNCHANGED sawFailure
             /\ PollResult(mapTranscriptionToResult(transcription))
       \/ \E st \in TransportFailures :
             /\ sawFailure' = TRUE
             /\ lastError' = TransportError(st)
             /\ UNCHANGED <<sawSuccess, job>>
             /\ IF attempt = maxRetries
                THEN LET error == handleError(
                                    RetryExhausted("Failed to get transcription status",
                                                   TransportError(st)),
                                    "Failed to get transcription status")
                     IN  /\ thrown' = Throw("fetch", st, error)
                         /\ delays' = IF attempt = 1 THEN <<>> ELSE delays
                         /\ PollCatch(error, callbacks)
                ELSE /\ attempt' = attempt + 1
                     /\ delays' = Append(IF attempt = 1 THEN <<>> ELSE delays,
                                         backoff(attempt))
                     /\ thrown' = NoThrow
                     /\ UNCHANGED <<attempts, pc, callbacks, outcome>>
    /\ UNCHANGED <<file, audioUrl, transcriptionId, uploadCalls, createCalls,
                   component, hook, others>>

(***************************************************************************)
(* useTranscription and the effects of EnhancedFileUpload.                 *)
(***************************************************************************)
\* A render with the new state s, and the effects that depend on it.  fresh
\* says that s.result is an object the previous state did not hold.
Render(s, fresh) ==
    /\ state' = s
    /\ completeCalls' =
          IF /\ s.status = "completed"
             /\ s.result # NoJob
             /\ (s.status # state.status \/ s.result # state.result \/ fresh)
          THEN completeCalls + 1 ELSE completeCalls
    /\ errorCalls' =
          IF /\ s.status = "error"
             /\ s.error # "null"
             /\ (s.status # state.status \/ s.error # state.error)
          THEN errorCalls + 1 ELSE errorCalls

\* updateState(updates): the fields named in updates replace those of s.
updateState(s, updates) ==
    [k \in DOMAIN s |-> IF k \in DOMAIN updates THEN updates[k] ELSE s[k]]

\* abortControllerRef.current?.signal.aborted; the ref is "null", or holds a
\* controller that is "live" or "aborted".
SignalAborted(ref) == ref = "aborted"

\* signal: abortControllerRef.current?.signal || null
CurrentSignal(ref) ==
    IF ref = "null" THEN "none" ELSE IF ref = "aborted" THEN "aborted" ELSE "current"

HookLoopCondition(a) == a < maxAttempts

\* Mutant: the catch logs the error and returns, the state left as it is.
HookFail_Swallowed(r, run, s, message, how) ==
    /\ runs' = [runs EXCEPT ![r] = [run EXCEPT !.pc = "done", !.how = how,
                                               !.signal = "none"]]
    /\ Render(s, FALSE)

\* The catch of startTranscription or of checkStatus for another error than
\* an AbortError.
HookFail(r, run, s, message, how) ==
    /\ runs' = [runs EXCEPT ![r] = [run EXCEPT !.pc = "done", !.how = how,
                                               !.signal = "none"]]
    /\ Render(IF run.kind = "start"
              THEN updateState(s, [isTranscribing |-> FALSE, status |-> "error",
                                   message |-> "Transcription failed",
                                   error |-> message, progress |-> 0])
              ELSE updateState(s, [isTranscribing |-> FALSE, status |-> "error",
                                   message |-> "Failed to check status",
                                   error |-> message]),
              FALSE)

\* The head of the while loop of pollTranscriptionStatus with attempts = a:
\* the next status request, or the timeout.
HookLoopHead(r, run, a, s) ==
    IF HookLoopCondition(a)
    THEN IF SignalAborted(abortControllerRef)
         THEN /\ runs' = [runs EXCEPT ![r] = [run EXCEPT !.pc = "done",
                               !.attempts = a, !.how = "aborted", !.signal = "none"]]
              /\ Render(s, FALSE)
         ELSE /\ runs' = [runs EXCEPT ![r] = [run EXCEPT !.pc = "fetch",
                               !.attempts = a,
                               !.signal = CurrentSignal(abortControllerRef),
                               !.fetches = run.fetches + 1]]
              /\ Render(s, FALSE)
    ELSE HookFail(r, [run EXCEPT !.attempts = a], s, TimeoutMessage, "timeout")

\* catch (error) of the loop body for another error than an AbortError.
HookPollCatch(r, run, message) ==
    IF run.attempts >= 3
    THEN HookFail(r, run, state, message, "error")
    ELSE /\ runs' = [runs EXCEPT ![r] = [run EXCEPT !.pc = "retryWait",
                          !.attempts = run.attempts + 1, !.signal = "none"]]
         /\ Render(state, FALSE)

\* A call of startTranscription(file) up to the upload request: the state is
\* reset, the file kept and a new AbortController made, whose signal the
\* request is given.  A request in flight with the signal of the controller
\* the ref held so far keeps a signal nothing can abort any more.
Launch(r) ==
    /\ component = "hook"
    /\ launches < MaxLaunches
    /\ runs[r].pc \notin InFlight
    /\ launches' = launches + 1
    /\ currentFileRef' = "file"
    /\ abortControllerRef' = "live"
    /\ runs' = [q \in DOMAIN runs |->
                  IF q = r
                  THEN [NoRun EXCEPT !.pc = "upload", !.kind = "start",
                                     !.signal = "current"]
                  ELSE IF runs[q].signal = "current"
                       THEN [runs[q] EXCEPT !.signal = "none"]
                       ELSE runs[q]]
    /\ Render([isTranscribing |-> TRUE, progress |-> 0, status |-> "uploading",
               message |-> "Preparing to upload file...", result |-> NoJob,
               error |-> "null", transcriptionId |-> "null"], FALSE)

HookStartTranscription ==
    /\ \E r \in DOMAIN runs : Launch(r)
    /\ UNCHANGED <<component, others, service>>

\* retry: startTranscription with the file kept, when one is kept.
HookRetry ==
    /\ currentFileRef # "null"
    /\ \E r \in DOMAIN runs : Launch(r)
    /\ UNCHANGED <<component, others, service>>

\* checkStatus(transcriptionId) up to the first status request of the loop.
HookCheckStatus ==
    /\ component = "hook"
    /\ launches < MaxLaunches
    /\ \E r \in DOMAIN runs :
          /\ runs[r].pc \notin InFlight
          /\ HookLoopHead(r, [NoRun EXCEPT !.kind = "check",
                                           !.job = [NoJob EXCEPT !.status = "queued"]],
                          0,
                          updateState(state, [isTranscribing |-> TRUE,
                                              status |-> "processing",
                                              message |-> "Checking transcription status..."]))
    /\ launches' = launches + 1
    /\ UNCHANGED <<component, others, service, abortControllerRef, currentFileRef>>

\* reset: abort the controller the ref holds, clear the state and both refs.
HookReset ==
    /\ component = "hook"
    /\ runs' = [q \in DOMAIN runs |->
                  IF runs[q].pc \in InFlight
                  THEN [runs[q] EXCEPT
                          !.cancelled = TRUE,
                          !.signal = IF @ = "current" /\ abortControllerRef # "null"
                                     THEN "aborted" ELSE @]
                  ELSE runs[q]]
    /\ Render(IdleState, FALSE)
    /\ currentFileRef' = "null"
    /\ abortControllerRef' = "null"
    /\ UNCHANGED <<component, others, service, launches>>

\* The POST to /api/upload settles: aborted, failed, or answered with the id
\* of the job, upon which the polling loop starts.
HookUploadSettled ==
    /\ component = "hook"
    /\ \E r \in DOMAIN runs :
          /\ runs[r].pc = "upload"
          /\ IF runs[r].signal = "aborted"
             THEN /\ runs' = [runs EXCEPT ![r] = [@ EXCEPT !.pc = "done",
                                   !.how = "aborted", !.signal = "none"]]
                  /\ Render(updateState(state, [status |-> "idle",
                                                message |-> "Transcription cancelled",
                                                error |-> "null"]), FALSE)
             ELSE \/ \E e \in RouteErrors :
                        HookFail(r, [runs[r] EXCEPT !.failed = TRUE], state, e, "error")
                  \/ HookLoopHead(r, [runs[r] EXCEPT
                                        !.job = [NoJob EXCEPT !.status = "queued"]],
                                  0,
                                  updateState(state, [transcriptionId |-> "id",
                                      status |-> "processing",
                                      message |-> "Transcription started, processing audio...",
                                      progress |-> 20]))
    /\ UNCHANGED <<component, others, service, abortControllerRef, currentFileRef, launches>>

\* The loop body after the status request returned result, with attempts as
\* the loop holds it.
HookPollResult(r, run, result) ==
    IF result.status = "error"
    THEN HookPollCatch(r, run, IF result.error # "" THEN result.error
                               ELSE "Transcription failed")
    ELSE IF result.status = "completed"
    THEN /\ runs' = [runs EXCEPT ![r] = [run EXCEPT !.pc = "done",
                          !.how = "completed", !.signal = "none"]]
         /\ Render(updateState(state, [progress |-> 100,
                       message |-> "Transcription completed successfully!",
                       result |-> result, isTranscribing |-> FALSE,
                       status |-> "completed"]), TRUE)
    ELSE /\ runs' = [runs EXCEPT ![r] = [run EXCEPT !.pc = "wait", !.signal = "none"]]
         /\ Render(updateState(state,
                     [progress |-> IF result.status = "processing"
                                   THEN 20 + (run.attempts * 60) \div maxAttempts
                                   ELSE 20,
                      message |-> IF result.status = "processing"
                                  THEN "Transcribing audio with speaker labels and sentiment analysis..."
                                  ELSE "Transcription queued, waiting to start...",
                      result |-> NoJob]), FALSE)

\* The GET to /api/upload settles: aborted, failed, or answered with a result.
HookStatusSettled ==
    /\ component = "hook"
    /\ \E r \in DOMAIN runs :
          /\ runs[r].pc = "fetch"
          /\ IF runs[r].signal = "aborted"
             THEN /\ runs' = [runs EXCEPT ![r] = [@ EXCEPT !.pc = "done",
                                   !.how = "aborted", !.signal = "none"]]
                  /\ Render(state, FALSE)
             ELSE \/ \E e \in RouteErrors :
                        HookPollCatch(r, [runs[r] EXCEPT !.failed = TRUE], e)
                  \/ \E result \in JobRecords(runs[r].job) :
                        HookPollResult(r, [runs[r] EXCEPT !.job = result], result)
    /\ UNCHANGED <<component, others, service, abortControllerRef, currentFileRef, launches>>

\* The timer of a wait fires: after the wait between two polls attempts is
\* incremented; before the wait of a retry it already was.
HookWake ==
    /\ component = "hook"
    /\ \E r \in DOMAIN runs :
          /\ runs[r].pc \in {"wait", "retryWait"}
          /\ HookLoopHead(r, runs[r],
                          IF runs[r].pc = "wait" THEN runs[r].attempts + 1
                                                 ELSE runs[r].attempts,
                          state)
    /\ UNCHANGED <<component, others, service, abortControllerRef, currentFileRef, launches>>

ServiceNext ==
    \/ StartTranscription
    \/ Upload
    \/ Create
    \/ Poll

Next ==
    \/ ServiceNext
    \/ HookStartTranscription
    \/ HookRetry
    \/ HookCheckStatus
    \/ HookReset
    \/ HookUploadSettled
    \/ HookStatusSettled
    \/ HookWake

Spec == Init /\ [][Next]_vars

\* useTranscription alone.
HookInit == Init /\ component = "hook"

HookNext ==
    \/ HookStartTranscription
    \/ HookRetry
    \/ HookCheckStatus
    \/ HookReset
    \/ HookUploadSettled
    \/ HookStatusSettled
    \/ HookWake

HookSpec == HookInit /\ [][HookNext]_vars

\* What the browser guarantees each call: a request in flight returns or
\* fails and a timer fires.
HookFairSpec ==
    /\ HookSpec
    /\ \A r \in Runs :
          /\ WF_vars(HookUploadSettled /\ runs'[r] # runs[r])
          /\ WF_vars(HookStatusSettled /\ runs'[r] # runs[r])
          /\ WF_vars(HookWake /\ runs'[r] # runs[r])

\* useTranscription with MaxOverlap calls under way at once, each of which
\* sends at most MaxOverlapFetches status requests.
MaxOverlap == 2

MaxOverlapFetches == 2

OverlapInit ==
    /\ component = "hook"
    /\ file = NoFile
    /\ ServiceIdle
    /\ OthersIdle
    /\ state = IdleState
    /\ abortControllerRef = "null"
    /\ currentFileRef = "null"
    /\ runs = [r \in 1 .. MaxOverlap |-> NoRun]
    /\ launches = 0
    /\ completeCalls = 0
    /\ errorCalls = 0

OverlapNext ==
    /\ HookNext
    /\ \A r \in DOMAIN runs : runs'[r].fetches <= MaxOverlapFetches

OverlapSpec == OverlapInit /\ [][OverlapNext]_vars

\* One run of TranscriptionService.startTranscription alone.
ServiceInit == Init /\ component = "service"

ServiceSpec == ServiceInit /\ [][ServiceNext]_vars

\* What the event loop guarantees: a provider call in flight settles and a
\* timer fires, so a polling loop that can take a step does take it.
\* This is WF_vars(Poll) with its ENABLED <<Poll>>_vars written out: Poll can
\* take a step, and one that adds to fetchCalls, exactly when pc = "poll".
FairSpec == ServiceSpec /\ ([]<>(pc # "poll") \/ []<><<Poll>>_vars)

Done == {"resolved", "raised"}

(***************************************************************************)
(* The validators of the three layers, each applied to the same file:      *)
(* validateFile of EnhancedFileUpload, validateAudioFile of the file       *)
(* utilities, which the upload route calls, and validateAudioFile of       *)
(* AssemblyAIService.                                                      *)
(***************************************************************************)
SUPPORTED_AUDIO_TYPES == {"audio/mp3", "audio/wav", "audio/m4a", "audio/mpeg", "audio/mp4"}

MAX_FILE_SIZE == 104857600

allowedTypes == {"audio/mp3", "audio/wav", "audio/m4a", "audio/mpeg"}

maxFileSize == 104857600

\* validateAudioFile of the file utilities: isValid.
utilsValidateAudioFile(f) ==
    IF f = NoFile THEN FALSE
    ELSE IF f.type \notin SUPPORTED_AUDIO_TYPES THEN FALSE
    ELSE IF f.size > MAX_FILE_SIZE THEN FALSE
    ELSE IF f.size = 0 THEN FALSE
    ELSE TRUE

\* validateFile of EnhancedFileUpload: TRUE when it returns null.
validateFile(f) ==
    IF f.type \notin allowedTypes THEN FALSE
    ELSE IF f.size > maxFileSize THEN FALSE
    ELSE TRUE

ValidatorFiles ==
    [type : {"audio/mp3", "audio/wav", "audio/m4a", "audio/mpeg", "audio/mp4",
             "video/mp4", ""},
     size : {0, 1, maxSize, maxSize + 1}]

Verdict(accepted) == IF accepted THEN "accept" ELSE "reject"

ValidatorInit ==
    /\ component = "validators"
    /\ file \in ValidatorFiles
    /\ ServiceIdle
    /\ HookIdle
    /\ OthersIdle

\* handleFileSelect: const error = validateFile(file).
HandleFileSelect ==
    /\ component = "validators"
    /\ verdicts.ui = "none"
    /\ verdicts' = [verdicts EXCEPT !.ui = Verdict(validateFile(file))]
    /\ UNCHANGED <<component, service, hook, transcript, normalized, apiKey,
                   instances, requests, response, calls, building>>

\* POST of the upload route: const validation = validateAudioFile(file).
RouteValidate ==
    /\ component = "validators"
    /\ verdicts.route = "none"
    /\ verdicts' = [verdicts EXCEPT !.route = Verdict(utilsValidateAudioFile(file))]
    /\ UNCHANGED <<component, service, hook, transcript, normalized, apiKey,
                   instances, requests, response, calls, building>>

\* uploadAndTranscribe: this.validateAudioFile(file).
ClientValidate ==
    /\ component = "validators"
    /\ verdicts.client = "none"
    /\ verdicts' = [verdicts EXCEPT !.client = Verdict(validateAudioFile(file) = NoError)]
    /\ UNCHANGED <<component, service, hook, transcript, normalized, apiKey,
                   instances, requests, response, calls, building>>

ValidatorNext ==
    \/ HandleFileSelect
    \/ RouteValidate
    \/ ClientValidate

ValidatorSpec == ValidatorInit /\ [][ValidatorNext]_vars

(***************************************************************************)
(* mapTranscriptionToResult applied to a completed transcript with an      *)
(* array of at most MaxSegments sentiment results, or with none.           *)
(***************************************************************************)
MaxSegments == 4

SentimentResults ==
    UNION {[1 .. n -> [text : {"t"}, sentiment : SentimentLabels]] :
             n \in 0 .. MaxSegments}

SentimentTranscripts ==
    {[status |-> "completed", text |-> "hello world", error |-> "",
      utterances |-> Null, speaker_labels |-> Null,
      sentiment_analysis_results |-> a] :
        a \in {Null} \cup {Array(results) : results \in SentimentResults}}

NormalizerInit ==
    /\ component = "normalizer"
    /\ file = NoFile
    /\ ServiceIdle
    /\ HookIdle
    /\ verdicts = NoVerdicts
    /\ transcript \in SentimentTranscripts
    /\ normalized = NotNormalized
    /\ apiKey = "key"
    /\ instances = 0
    /\ requests = 0
    /\ response = NoResponse
    /\ RequestIdle
    /\ calls = <<>>

\* return this.mapTranscriptionToResult(transcription)
Normalize ==
    /\ component = "normalizer"
    /\ normalized = NotNormalized
    /\ normalized' = mapTranscriptionToResult(transcript)
    /\ UNCHANGED <<component, file, service, hook, verdicts, transcript, apiKey,
                   instances, requests, response, calls, building>>

NormalizerNext == Normalize

NormalizerSpec == NormalizerInit /\ [][NormalizerNext]_vars

(***************************************************************************)
(* The code that constructs an AssemblyAIService: createAssemblyAIService, *)
(* the constructor of TranscriptionService, and the POST and GET handlers  *)
(* of the upload route.  The environment holds a key, an empty key or no   *)
(* key; MaxRequests calls are made in all.                                 *)
(***************************************************************************)
MaxRequests == 2

ApiKeys == {"null", "", "key"}

MissingKey == NewError(<<"ASSEMBLYAI_API_KEY environment variable is required">>)

\* Mutant: the key is not looked at.
createAssemblyAIService_Unchecked(key) == TRUE

\* createAssemblyAIService: TRUE when it returns an instance, FALSE when it
\* throws MissingKey.
createAssemblyAIService(key) == key \notin {"null", ""}

Respond(status, success, error) ==
    response' = [status |-> status, success |-> success, error |-> error]

StartupInit ==
    /\ component = "startup"
    /\ file = NoFile
    /\ ServiceIdle
    /\ HookIdle
    /\ verdicts = NoVerdicts
    /\ transcript = [status |-> "none"]
    /\ normalized = NotNormalized
    /\ apiKey \in ApiKeys
    /\ instances = 0
    /\ requests = 0
    /\ response = NoResponse
    /\ RequestIdle
    /\ calls = <<>>

\* A call of createAssemblyAIService, or new TranscriptionService(), whose
\* constructor makes that call.
Construct ==
    /\ requests' = requests + 1
    /\ IF createAssemblyAIService(apiKey)
       THEN /\ instances' = instances + 1
            /\ thrown' = NoThrow
       ELSE /\ thrown' = Throw("construct", 0, MissingKey)
            /\ UNCHANGED instances
    /\ UNCHANGED <<component, file, attempts, attempt, audioUrl, transcriptionId,
                   job, outcome, callbacks, counters, sawFailure, sawSuccess,
                   lastError, delays, pc, hook, verdicts, transcript, normalized,
                   apiKey, response, calls, building>>

CreateAssemblyAIService ==
    /\ component = "startup"
    /\ requests < MaxRequests
    /\ Construct

NewTranscriptionService ==
    /\ component = "startup"
    /\ requests < MaxRequests
    /\ Construct

\* POST /api/upload with the file f, the whole handler: the calls that
\* uploadAndTranscribe makes are counted, its result is the response.
POST ==
    /\ component = "startup"
    /\ requests < MaxRequests
    /\ requests' = requests + 1
    /\ \E f \in {NoFile} \cup ValidatorFiles :
          IF f = NoFile
          THEN /\ Respond(400, FALSE, <<"No file provided">>)
               /\ UNCHANGED <<instances, uploadCalls, createCalls>>
          ELSE IF ~utilsValidateAudioFile(f)
          THEN /\ Respond(400, FALSE, <<"File validation failed">>)
               /\ UNCHANGED <<instances, uploadCalls, createCalls>>
          ELSE IF ~createAssemblyAIService(apiKey)
          THEN /\ Respond(500, FALSE, MissingKey.message)
               /\ UNCHANGED <<instances, uploadCalls, createCalls>>
          ELSE /\ instances' = instances + 1
               /\ IF validateAudioFile(f) # NoError
                  THEN /\ Respond(500, FALSE,
                                  handleError(validateAudioFile(f),
                                     "Failed to upload and transcribe audio file").message)
                       /\ UNCHANGED <<uploadCalls, createCalls>>
                  ELSE /\ uploadCalls' = uploadCalls + 1
                       /\ \/ \E st \in TransportFailures :
                                /\ Respond(500, FALSE,
                                           handleError(TransportError(st),
                                              "Failed to upload and transcribe audio file").message)
                                /\ UNCHANGED createCalls
                          \/ \E k \in 1 .. maxRetries :
                                /\ createCalls' = createCalls + k
                                /\ Respond(200, TRUE, <<>>)
                          \/ \E st \in TransportFailures :
                                /\ createCalls' = createCalls + maxRetries
                                /\ Respond(500, FALSE,
                                           handleError(
                                              RetryExhausted("Failed to submit transcription request",
                                                             TransportError(st)),
                                              "Failed to upload and transcribe audio file").message)
    /\ UNCHANGED <<component, file, pc, attempts, attempt, audioUrl, transcriptionId,
                   job, outcome, callbacks, fetchCalls, statusCalls, sawFailure,
                   sawSuccess, lastError, delays, thrown, hook, verdicts,
                   transcript, normalized, apiKey, calls, building>>

\* GET /api/upload?transcriptionId=id, the whole handler.
GET ==
    /\ component = "startup"
    /\ requests < MaxRequests
    /\ requests' = requests + 1
    /\ \E id \in {"null", "id"} :
          IF id = "null"
          THEN /\ Respond(400, FALSE, <<"Transcription ID is required">>)
               /\ UNCHANGED <<instances, fetchCalls>>
          ELSE IF ~createAssemblyAIService(apiKey)
          THEN /\ Respond(500, FALSE, MissingKey.message)
               /\ UNCHANGED <<instances, fetchCalls>>
          ELSE /\ instances' = instances + 1
               /\ \/ \E k \in 1 .. maxRetries :
                        /\ fetchCalls' = fetchCalls + k
                        /\ Respond(200, TRUE, <<>>)
                  \/ \E st \in TransportFailures :
                        /\ fetchCalls' = fetchCalls + maxRetries
                        /\ Respond(500, FALSE,
                                   handleError(
                                      RetryExhausted("Failed to get transcription status",
                                                     TransportError(st)),
                                      "Failed to get transcription status").message)
    /\ UNCHANGED <<component, file, pc, attempts, attempt, audioUrl, transcriptionId,
                   job, outcome, callbacks, uploadCalls, createCalls, statusCalls,
                   sawFailure, sawSuccess, lastError, delays, thrown, hook,
                   verdicts, transcript, normalized, apiKey, calls, building>>

StartupNext ==
    \/ CreateAssemblyAIService
    \/ NewTranscriptionService
    \/ POST
    \/ GET

StartupSpec == StartupInit /\ [][StartupNext]_vars

(***************************************************************************)
(* MaxCalls concurrent calls of startTranscription on one                  *)
(* TranscriptionService.  What a call holds is local to it: its file, its  *)
(* place, the counters of its loops, its job as last fetched, what its     *)
(* onProgress has seen, and its outcome.  The service itself holds only    *)
(* its configuration.  A call that has ended has dropped its counters.     *)
(***************************************************************************)
MaxCalls == 2

Calls == 1 .. MaxCalls

\* The files of the calls, no two the same.
CallFile(i) ==
    [type |-> IF i % 2 = 1 THEN "audio/mpeg" ELSE "audio/wav", size |-> i]

NewCall(f) ==
    [pc |-> "idle", file |-> f, attempts |-> 0, attempt |-> 1, job |-> NoJob,
     callbacks |-> NoCallbacks,
     outcome |-> [kind |-> "none", error |-> NoError, result |-> NoJob]]

\* catch (error) of startTranscription.
CallRaise(c, error, cb) ==
    [c EXCEPT !.pc = "raised", !.attempts = 0, !.attempt = 1,
              !.callbacks = onProgress(cb, "error", 0),
              !.outcome = [kind |-> "raised", error |-> error, result |-> NoJob]]

\* Step 3 of startTranscription.
CallFinish(c, result, cb) ==
    IF result.status = "error"
    THEN CallRaise(c, NewError(<<IF result.error # "" THEN result.error
                                 ELSE "Transcription failed">>), cb)
    ELSE IF result.text = ""
    THEN CallRaise(c, NewError(<<"Transcription completed but no text was generated">>), cb)
    ELSE [c EXCEPT !.pc = "resolved", !.attempts = 0, !.attempt = 1,
                   !.callbacks = onProgress(cb, "completed", 100),
                   !.outcome = [kind |-> "resolved", error |-> NoError,
                                result |-> result]]

\* The head of the while loop of pollTranscriptionStatus with attempts = a.
CallLoopBack(c, a, cb) ==
    IF LoopCondition(a)
    THEN [c EXCEPT !.attempts = a, !.attempt = 1, !.callbacks = cb]
    ELSE CallRaise(c, TimeoutError, cb)

\* catch (error) of the loop body.
CallPollCatch(c, error, cb) ==
    IF c.attempts >= maxRetries
    THEN CallRaise(c, handleError(error, "Failed to poll transcription status"), cb)
    ELSE CallLoopBack(c, c.attempts + 1, cb)

\* The loop body after getTranscriptionStatus returned result.
CallPollResult(c, result) ==
    LET cb == onProgress(c.callbacks, result.status,
                         adjustedProgress(calculateProgress(result)))
    IN  IF result.status = "completed" THEN CallFinish(c, result, cb)
        ELSE IF result.status = "error"
        THEN CallPollCatch(c, NewError(<<IF result.error # "" THEN result.error
                                         ELSE "Transcription failed">>), cb)
        ELSE CallLoopBack(c, c.attempts + 1, cb)

\* The steps the call c can take: what it becomes when the provider call it
\* waits for settles, one way or another.
CallSteps(c) ==
    CASE c.pc = "idle" ->
           LET cb == onProgress(c.callbacks, "uploading", 10)
               invalid == validateAudioFile(c.file)
           IN  IF invalid # NoError
               THEN {CallRaise(c, handleError(invalid,
                                  "Failed to upload and transcribe audio file"), cb)}
               ELSE {[c EXCEPT !.pc = "upload", !.callbacks = cb]}
      [] c.pc = "upload" ->
           {CallRaise(c, handleError(NewError(<<"Failed to convert file to buffer">>),
                                     "Failed to upload and transcribe audio file"),
                      c.callbacks)}
           \cup {[c EXCEPT !.pc = "create", !.attempt = 1]}
           \cup {CallRaise(c, handleError(TransportError(st),
                                          "Failed to upload and transcribe audio file"),
                           c.callbacks) : st \in TransportFailures}
      [] c.pc = "create" ->
           {[c EXCEPT !.pc = "poll", !.attempts = 0, !.attempt = 1,
                      !.job = [status |-> "queued", text |-> "", error |-> ""],
                      !.callbacks = onProgress(c.callbacks, "processing", 20)]}
           \cup {IF c.attempt = maxRetries
                 THEN CallRaise(c, handleError(
                                      RetryExhausted("Failed to submit transcription request",
                                                     TransportError(st)),
                                      "Failed to upload and transcribe audio file"),
                                c.callbacks)
                 ELSE [c EXCEPT !.attempt = c.attempt + 1] : st \in TransportFailures}
      [] c.pc = "poll" ->
           {CallPollResult([c EXCEPT !.job = t], mapTranscriptionToResult(t)) :
               t \in Transcripts(c.job)}
           \cup {IF c.attempt = maxRetries
                 THEN CallPollCatch(c, handleError(
                                          RetryExhausted("Failed to get transcription status",
                                                         TransportError(st)),
                                          "Failed to get transcription status"),
                                    c.callbacks)
                 ELSE [c EXCEPT !.attempt = c.attempt + 1] : st \in TransportFailures}
      [] OTHER -> {}

\* What a call started on one of the files can become by its own steps alone.
RECURSIVE CallsReachable(_, _)
CallsReachable(seen, frontier) ==
    IF frontier = {} THEN seen
    ELSE LET next == UNION {CallSteps(c) : c \in frontier} \ seen
         IN  CallsReachable(seen \cup next, next)

\* CallSteps, tabulated over those.
CallTable ==
    LET started == {NewCall(CallFile(i)) : i \in Calls}
    IN  [c \in CallsReachable(started, started) |-> CallSteps(c)]

\* The run of ServiceSpec, seen as one call.
ServiceCall ==
    [pc |-> pc, file |-> file,
     attempts |-> IF pc \in Done THEN 0 ELSE attempts,
     attempt |-> IF pc \in Done THEN 1 ELSE attempt,
     job |-> job, callbacks |-> callbacks, outcome |-> outcome]

\* Every step of the run of ServiceSpec is a step of that call.
ServiceStepIsCallStep == [][ServiceCall' \in CallSteps(ServiceCall)]_service

ConcurrentInit ==
    /\ component = "concurrent"
    /\ file = NoFile
    /\ ServiceIdle
    /\ HookIdle
    /\ verdicts = NoVerdicts
    /\ transcript = [status |-> "none"]
    /\ normalized = NotNormalized
    /\ apiKey = "key"
    /\ instances = 0
    /\ requests = 0
    /\ response = NoResponse
    /\ RequestIdle
    /\ calls = [i \in Calls |-> NewCall(CallFile(i))]

\* Mutant: attempts is a field of the service, which every loop counts in.
CallStep_SharedAttempts ==
    /\ component = "concurrent"
    /\ \E i \in Calls : \E d \in CallSteps(calls[i]) :
          calls' = [j \in Calls |->
                      IF j = i THEN d
                      ELSE IF calls[j].pc = "poll" /\ d.pc = "poll"
                           THEN [calls[j] EXCEPT !.attempts = d.attempts]
                           ELSE calls[j]]
    /\ UNCHANGED <<component, service, hook, verdicts, transcript, normalized,
                   apiKey, instances, requests, response, building>>

\* The provider call some call waits for settles, and that call goes on to
\* its next provider call or to its end.
CallStep ==
    /\ component = "concurrent"
    /\ \E i \in Calls : \E d \in CallSteps(calls[i]) :
          calls' = [calls EXCEPT ![i] = d]
    /\ UNCHANGED <<component, service, hook, verdicts, transcript, normalized,
                   apiKey, instances, requests, response, building>>

ConcurrentNext == CallStep

ConcurrentSpec == ConcurrentInit /\ [][ConcurrentNext]_vars

(***************************************************************************)
(* The job-create request uploadAndTranscribe builds from its options.  A  *)
(* flag is "undefined" or "null" when the caller gave no value for it,     *)
(* else "true" or "false"; the options object may carry a field the        *)
(* TranscriptionOptions interface does not name.                           *)
(***************************************************************************)
OptionFlags == {"undefined", "null", "true", "false"}

LanguageCodes == {"undefined", "en", "es"}

Options ==
    [speakerLabels : OptionFlags, sentimentAnalysis : OptionFlags,
     summarization : OptionFlags, piiRedaction : OptionFlags,
     autoHighlights : OptionFlags, languageCode : LanguageCodes]

\* value ?? fallback
Coalesce(value, fallback) ==
    IF value \in {"undefined", "null"} THEN fallback ELSE value

\* const transcriptionRequest = {...}
transcriptionRequest(url, opts) ==
    [audio_url |-> url,
     speaker_labels |-> Coalesce(opts.speakerLabels, "true"),
     sentiment_analysis |-> Coalesce(opts.sentimentAnalysis, "true"),
     summarization |-> Coalesce(opts.summarization, "true"),
     redact_pii |-> Coalesce(opts.piiRedaction, "true"),
     auto_highlights |-> "true",
     language_code |-> Coalesce(opts.languageCode, "en")]

RequestInit ==
    /\ component = "request"
    /\ file = NoFile
    /\ ServiceIdle
    /\ HookIdle
    /\ verdicts = NoVerdicts
    /\ transcript = [status |-> "none"]
    /\ normalized = NotNormalized
    /\ apiKey = "key"
    /\ instances = 0
    /\ requests = 0
    /\ response = NoResponse
    /\ calls = <<>>
    /\ options \in Options
    /\ request = NoRequest

\* uploadAndTranscribe from the upload that has returned to the request built.
BuildRequest ==
    /\ component = "request"
    /\ request = NoRequest
    /\ request' = transcriptionRequest("url", options)
    /\ UNCHANGED <<component, service, hook, verdicts, transcript, normalized,
                   apiKey, instances, requests, response, calls, options>>

RequestNext == BuildRequest

RequestSpec == RequestInit /\ [][RequestNext]_vars

(***************************************************************************)
(* mapTranscriptionToResult applied to a completed transcript whose        *)
(* speaker segments, redactions and highlights come in every shape the     *)
(* function tells apart, with at most MaxEntries entries in an array.      *)
(***************************************************************************)
MaxEntries == 2

SegmentPool ==
    {[speaker |-> "A", text |-> "hello", start |-> 0, end |-> 5, confidence |-> 90],
     [speaker |-> "B", text |-> "world", start |-> 5, end |-> 9, confidence |-> 80]}

RedactionPool ==
    {[text |-> "####", type |-> "person_name", confidence |-> 90, start |-> 0,
      end |-> 4],
     [text |-> "##", type |-> "date", confidence |-> 70, start |-> 6, end |-> 8]}

HighlightPool ==
    {[text |-> "price", count |-> 2, rank |-> 9, timestamps |-> Array(<<1, 7>>)],
     [text |-> "contract", count |-> 1, rank |-> 4, timestamps |-> Null]}

ArraysOver(pool) ==
    {Array(items) : items \in UNION {[1 .. n -> pool] : n \in 0 .. MaxEntries}}

ShapeTranscripts ==
    {[status |-> "completed", text |-> "hello world", error |-> "",
      utterances |-> u, speaker_labels |-> l, sentiment_analysis_results |-> Null,
      pii_redaction_results |-> p, auto_highlights_result |-> h] :
        u \in {Null} \cup ArraysOver(SegmentPool),
        l \in {Null, SpeakerLabelsFlag, SpeakerLabelsObject(Null)}
                \cup ArraysOver(SegmentPool)
                \cup {SpeakerLabelsObject(a) : a \in ArraysOver(SegmentPool)},
        p \in {Null} \cup ArraysOver(RedactionPool),
        h \in {Null, HighlightsResult(Null)}
                \cup {HighlightsResult(a) : a \in ArraysOver(HighlightPool)}}

ShapeInit ==
    /\ component = "normalizer"
    /\ file = NoFile
    /\ ServiceIdle
    /\ HookIdle
    /\ verdicts = NoVerdicts
    /\ transcript \in ShapeTranscripts
    /\ normalized = NotNormalized
    /\ apiKey = "key"
    /\ instances = 0
    /\ requests = 0
    /\ response = NoResponse
    /\ RequestIdle
    /\ calls = <<>>

ShapeSpec == ShapeInit /\ [][NormalizerNext]_vars

(***************************************************************************)
(* calculateProgress applied, in some iteration of the polling loop, to a  *)
(* result of any status, with or without text, error and speakers.         *)
(***************************************************************************)
ProgressResults ==
    [status : {"queued", "processing", "completed", "error"},
     text : ProviderTexts, error : ProviderErrors,
     speakers : {<<>>, <<[speaker |-> "A", text |-> "hello"]>>}]

ProgressInit ==
    /\ component = "progress"
    /\ file = NoFile
    /\ pc = "poll"
    /\ attempts \in 0 .. maxAttempts - 1
    /\ attempt = 1
    /\ audioUrl = "url"
    /\ transcriptionId = "id"
    /\ job = NoJob
    /\ outcome = [kind |-> "none", error |-> NoError, result |-> NoJob]
    /\ callbacks = NoCallbacks
    /\ uploadCalls = 0
    /\ createCalls = 0
    /\ fetchCalls = 0
    /\ statusCalls = 0
    /\ sawFailure = FALSE
    /\ sawSuccess = FALSE
    /\ lastError = NoError
    /\ delays = <<>>
    /\ thrown = NoThrow
    /\ HookIdle
    /\ verdicts = NoVerdicts
    /\ transcript \in ProgressResults
    /\ normalized = NotNormalized
    /\ apiKey = "key"
    /\ instances = 0
    /\ requests = 0
    /\ response = NoResponse
    /\ RequestIdle
    /\ calls = <<>>

\* this.calculateProgress(result)
CalculateProgress ==
    /\ component = "progress"
    /\ normalized = NotNormalized
    /\ normalized' = [status |-> "progress", progress |-> calculateProgress(transcript)]
    /\ UNCHANGED <<component, service, hook, verdicts, transcript, apiKey,
                   instances, requests, response, calls, building>>

ProgressNext == CalculateProgress

ProgressSpec == ProgressInit /\ [][ProgressNext]_vars

(***************************************************************************)
(* Claims.                                                                 *)
(***************************************************************************)
\* C1: as long as every status fetch succeeds with a non-terminal status, a
\* polling loop has made at most maxAttempts status fetches, and once it has
\* ended it has made exactly maxAttempts and ended with the timeout error;
\* this for the loop of AssemblyAIService and for the loop of the hook.
C1_TimeoutAfterExactlyMaxAttempts ==
    /\ (component = "service" /\ job.status \in {"queued", "processing"}
          /\ ~sawFailure) =>
          /\ statusCalls <= maxAttempts
          /\ fetchCalls = statusCalls
          /\ pc # "resolved"
          /\ pc = "raised" => /\ statusCalls = maxAttempts
                              /\ outcome.error = TimeoutError
    /\ \A r \in Runs :
          (runs[r].job.status \in {"queued", "processing"} /\ ~runs[r].failed
             /\ runs[r].how # "aborted") =>
             /\ runs[r].fetches <= maxAttempts
             /\ runs[r].pc = "done" => /\ runs[r].fetches = maxAttempts
                                       /\ runs[r].how = "timeout"

C1_Witness ==
    /\ component = "service"
    /\ pc = "raised"
    /\ job.status = "processing"
    /\ ~sawFailure
    /\ statusCalls = maxAttempts
    /\ outcome.error = TimeoutError

\* C2: once a status fetch has returned the job with status error, no further
\* status fetch is issued for that job, by either polling loop.
C2_NoFetchAfterJobError ==
    [][/\ (component = "service" /\ job.status = "error") => fetchCalls' = fetchCalls
       /\ \A r \in Runs :
             (runs[r].job.status = "error" /\ runs'[r].job.status = "error") =>
                runs'[r].fetches = runs[r].fetches]_vars

\* C3: once reset has been called while a run of startTranscription was in
\* flight, that run issues no further status request.
C3_NoFetchAfterCancel ==
    [][\A r \in Runs :
          (runs[r].kind = "start" /\ runs[r].cancelled /\ runs'[r].cancelled) =>
             runs'[r].fetches = runs[r].fetches]_vars

\* C4: a step of a run of startTranscription that was cancelled by reset does
\* not set the status of the hook to completed or error, does not write
\* result, error or progress, and fires neither the completion nor the error
\* callback of the component.
C4_CancelledRunLeavesStateAlone ==
    [][\A r \in Runs :
          (runs[r].kind = "start" /\ runs[r].cancelled /\ runs'[r].cancelled
             /\ runs'[r] # runs[r]) =>
             /\ state'.status \in {"completed", "error"} => state'.status = state.status
             /\ state'.result = state.result
             /\ state'.error = state.error
             /\ state'.progress = state.progress
             /\ completeCalls' = completeCalls
             /\ errorCalls' = errorCalls]_vars

C6_NoCallbackAfterTerminal == ~callbacks.afterTerminal

\* C7: a run never fires both a 'completed' and an 'error' callback.
C7_NeverCompletedAndError == ~(callbacks.completed > 0 /\ callbacks.errors > 0)

\* C8 as stated: when the job was submitted and every job-fetch call failed,
\* polling has raised after exactly maxRetries job-fetch calls.
C8_RaisesAfterMaxRetriesFetches ==
    (component = "service" /\ pc = "raised" /\ transcriptionId # "null"
       /\ ~sawSuccess) => fetchCalls = maxRetries

\* C8 as amended: when the job was submitted and every job-fetch call failed,
\* polling has raised after exactly maxRetries + 1 calls of
\* getTranscriptionStatus of maxRetries job-fetch calls each: maxRetries *
\* (maxRetries + 1) job-fetch calls in all.
C8_RaisesAfterNestedRetries ==
    (component = "service" /\ transcriptionId # "null" /\ ~sawSuccess) =>
       /\ fetchCalls <= maxRetries * (maxRetries + 1)
       /\ pc \in {"poll", "raised"}
       /\ pc = "raised" => /\ fetchCalls = maxRetries * (maxRetries + 1)
                           /\ statusCalls = maxRetries + 1
                           /\ attempts = maxRetries

C8_Witness ==
    /\ component = "service"
    /\ pc = "raised"
    /\ transcriptionId # "null"
    /\ ~sawSuccess
    /\ fetchCalls = maxRetries * (maxRetries + 1)

\* C9: a job-create call is issued only once the one upload call has returned
\* the audio URL, and a job-fetch call only once a job-create call has
\* returned the job id; neither the upload nor, after the id, the job-create
\* is called again.
C9_UploadThenCreateThenFetch ==
    /\ uploadCalls <= 1
    /\ createCalls <= maxRetries
    /\ createCalls > 0 => (uploadCalls = 1 /\ audioUrl # "null")
    /\ pc = "create" => audioUrl # "null"
    /\ fetchCalls > 0 => (createCalls > 0 /\ transcriptionId # "null")
    /\ pc = "poll" => transcriptionId # "null"
    /\ transcriptionId # "null" => job.status # "none"

C9_Witness ==
    /\ uploadCalls = 1
    /\ createCalls = 2
    /\ fetchCalls > 2
    /\ pc = "poll"

\* C10: pollTranscriptionStatus never makes more than maxAttempts calls of
\* getTranscriptionStatus, and a polling loop that has started ends: the run
\* resolves or raises.
C10_PollingTerminates ==
    /\ [](statusCalls <= maxAttempts /\ attempts <= maxAttempts)
    /\ (pc = "poll") ~> (pc \in Done)

C10_Witness ==
    /\ pc = "raised"
    /\ sawFailure
    /\ sawSuccess
    /\ statusCalls = maxAttempts
    /\ fetchCalls > maxAttempts

\* The transport statuses handleError gives a fixed message, and those of a
\* credential problem.
MappedStatuses == {401, 403, 429, 400, 500}

AuthStatuses == {401, 403}

\* C11: whenever uploadAndTranscribe or getTranscriptionStatus throws because
\* a provider call (upload, job-create or job-fetch) failed with one of the
\* mapped transport statuses, the error its caller receives carries the fixed
\* message of that status.
C11_FixedMessageForMappedStatus ==
    (component = "service" /\ thrown.status \in MappedStatuses) =>
       thrown.error = handleError(TransportError(thrown.status), "")

\* C12: a job-create or job-fetch call that has failed with status 401 or 403
\* is not attempted again by retryOperation: the failure is thrown to the
\* caller after that one attempt.
C12_AuthFailureNotRetried ==
    (component = "service" /\ lastError.status \in AuthStatuses) =>
       /\ attempt = 1
       /\ thrown.status = lastError.status

\* C13: a run given a missing file, a file of unsupported type, an empty file
\* or a file of more than maxSize bytes is rejected by the validation of
\* uploadAndTranscribe and makes no provider call; a file of a supported type
\* and of exactly maxSize bytes is not rejected by the validation.
C13_ValidationBeforeProviderCalls ==
    (component = "service" /\ pc # "idle") =>
       /\ (\/ file = NoFile
           \/ file.type \notin {"audio/mp3", "audio/wav", "audio/m4a", "audio/mpeg"}
           \/ file.size = 0
           \/ file.size > 104857600) =>
              /\ pc = "raised"
              /\ thrown.op = "validate"
              /\ uploadCalls = 0 /\ createCalls = 0 /\ fetchCalls = 0
       /\ (/\ file # NoFile
           /\ file.type \in {"audio/mp3", "audio/wav", "audio/m4a", "audio/mpeg"}
           /\ file.size = 104857600) => thrown.op # "validate"

C13_Witness ==
    /\ component = "service"
    /\ pc = "raised"
    /\ file.type = "audio/mpeg"
    /\ file.size = maxSize + 1
    /\ thrown.op = "validate"
    /\ uploadCalls = 0

\* C19: a fetch failure that reaches the catch of the polling loop when that
\* loop has caught no failure yet is tolerated, after however many polls: the
\* loop waits and polls again.  No failure was caught yet when every earlier
\* call of getTranscriptionStatus took one job-fetch and the job is not in
\* error: then the job-fetch calls made are one per earlier call and the
\* maxRetries - 1 of the call under way.
C19_FirstFailureTolerated ==
    [][(/\ component = "service"
        /\ pc = "poll"
        /\ attempt = maxRetries
        /\ fetchCalls = (statusCalls - 1) + (maxRetries - 1)
        /\ job.status \in {"queued", "processing"}
        /\ thrown'.op = "fetch") => pc' = "poll"]_vars

\* C20: retryOperation has invoked the operation attempt - 1 times when it is
\* about to make the attempt-th invocation, never more than maxRetries times,
\* and has waited retryDelay * 2^(k-1) after the k-th failure; once an
\* invocation has succeeded it invokes the operation no more; when the last
\* of maxRetries invocations has failed it raises without another wait.
C20_RetryOperationBackoff ==
    /\ [](component = "service" =>
            /\ attempt \in 1 .. maxRetries
            /\ createCalls <= maxRetries
            /\ pc = "create" =>
                  /\ createCalls = attempt - 1
                  /\ delays = [k \in 1 .. createCalls |-> 1000 * 2 ^ (k - 1)]
            /\ thrown.op \in {"create", "fetch"} => delays = <<1000, 2000>>
            /\ thrown.op = "create" => (attempt = maxRetries /\ createCalls = maxRetries))
    /\ [][/\ transcriptionId # "null" => createCalls' = createCalls
          /\ (pc = "poll" /\ sawSuccess' /\ ~sawFailure') =>
                fetchCalls' = statusCalls']_vars

C20_Witness ==
    /\ component = "service"
    /\ pc = "raised"
    /\ thrown.op = "create"
    /\ createCalls = maxRetries
    /\ delays = <<1000, 2000>>

\* C15: when no job-fetch has failed and the job was fetched as completed
\* with a text, startTranscription has resolved, with the status completed,
\* the text of the provider, one speaker segment for every utterance of the
\* provider in the same order, and a null sentiment when the transcript has
\* no array of sentiment results.
C15_ResolvesWithNormalizedRecord ==
    (component = "service" /\ ~sawFailure /\ job.status = "completed"
       /\ job.text # "") =>
       /\ pc = "resolved"
       /\ outcome.kind = "resolved"
       /\ statusCalls <= maxAttempts
       /\ outcome.result.status = "completed"
       /\ outcome.result.text = job.text
       /\ job.utterances.isArray =>
             /\ Len(outcome.result.speakers) = Len(job.utterances.items)
             /\ \A i \in 1 .. Len(job.utterances.items) :
                   /\ outcome.result.speakers[i].speaker = job.utterances.items[i].speaker
                   /\ outcome.result.speakers[i].text = job.utterances.items[i].text
       /\ ~job.sentiment_analysis_results.isArray =>
             outcome.result.sentiment = NoSentiment

C15_Witness ==
    /\ component = "service"
    /\ pc = "resolved"
    /\ ~sawFailure
    /\ statusCalls = maxAttempts
    /\ job.text = "hello world"
    /\ job.utterances.isArray
    /\ Len(outcome.result.speakers) = 2
    /\ outcome.result.sentiment = NoSentiment

\* C14: whatever the file, the validator of the component and the validator
\* of the upload route each accept it if and only if the validator of
\* AssemblyAIService accepts it.
C14_ValidatorsAgree ==
    component = "validators" =>
       /\ (verdicts.ui # "none" /\ verdicts.client # "none") =>
             verdicts.ui = verdicts.client
       /\ (verdicts.route # "none" /\ verdicts.client # "none") =>
             verdicts.route = verdicts.client

\* The number of segments whose sentiment is one of labels.
Labelled(results, labels) ==
    Cardinality({i \in 1 .. Len(results) : results[i].sentiment \in labels})

\* C16: the scores of the normalized sentiment are the numbers of segments
\* labelled positive, negative and neutral in either case of the letters, and
\* overall is POSITIVE exactly when there are more positive than negative
\* segments, NEGATIVE exactly when there are more negative than positive
\* ones, and NEUTRAL otherwise.
C16_OverallFollowsScores ==
    (component = "normalizer" /\ normalized # NotNormalized
       /\ transcript.sentiment_analysis_results.isArray) =>
       LET results == transcript.sentiment_analysis_results.items
           positive == Labelled(results, {"POSITIVE", "positive"})
           negative == Labelled(results, {"NEGATIVE", "negative"})
           neutral == Labelled(results, {"NEUTRAL", "neutral"})
       IN  /\ normalized.sentiment.scores =
                 [positive |-> positive, negative |-> negative, neutral |-> neutral]
           /\ normalized.sentiment.overall = "POSITIVE" <=> positive > negative
           /\ normalized.sentiment.overall = "NEGATIVE" <=> negative > positive
           /\ normalized.sentiment.overall = "NEUTRAL" <=> positive = negative

C16_Witness ==
    /\ component = "normalizer"
    /\ normalized # NotNormalized
    /\ transcript.sentiment_analysis_results.isArray
    /\ normalized.sentiment.scores = [positive |-> 2, negative |-> 2, neutral |-> 0]
    /\ normalized.sentiment.overall = "NEUTRAL"

\* C18: when the environment holds no key or an empty key, no
\* AssemblyAIService has been constructed, whichever of the constructing
\* calls were made, and no upload, job-create or job-fetch call was issued.
C18_NoProviderCallWithoutKey ==
    (component = "startup" /\ apiKey \in {"null", ""}) =>
       /\ instances = 0
       /\ uploadCalls = 0
       /\ createCalls = 0
       /\ fetchCalls = 0
       /\ response.status \in {0, 400, 500}
       /\ thrown.op \in {"none", "construct"}

C18_Witness ==
    /\ component = "startup"
    /\ apiKey = ""
    /\ requests = MaxRequests
    /\ thrown.op = "construct"
    /\ response.status = 500
    /\ response.error = <<"ASSEMBLYAI_API_KEY environment variable is required">>

C21_UploadFailureStopsTheRun ==
    /\ []((component = "service" /\ thrown.op = "upload") =>
             /\ pc = "raised"
             /\ uploadCalls = 1
             /\ createCalls = 0
             /\ fetchCalls = 0
             /\ audioUrl = "null"
             /\ transcriptionId = "null"
             /\ callbacks.lastStatus = "error"
             /\ callbacks.errors = 1
             /\ callbacks.completed = 0
             /\ outcome.kind = "raised"
             /\ outcome.error = thrown.error
             /\ outcome.error.message # <<>>)
    /\ [][~(component = "service" /\ thrown.op = "upload")]_vars

\* The upload has failed with a 401.
C21_Witness ==
    /\ component = "service"
    /\ thrown.op = "upload"
    /\ thrown.status = 401
    /\ pc = "raised"
    /\ uploadCalls = 1

\* C22: startTranscription returns a result only if that result is completed
\* with a non-empty text; a run that has ended on anything else (a job error,
\* a completed job without text, the timeout, exhausted retries, a failed
\* upload or create) has raised and returned nothing.
C22_ResolvesOnlyCompletedWithText ==
    component = "service" =>
       /\ outcome.kind = "resolved" =>
             /\ pc = "resolved"
             /\ outcome.result.status = "completed"
             /\ outcome.result.text # ""
             /\ outcome.error = NoError
       /\ pc \in Done =>
             /\ outcome.kind \in {"resolved", "raised"}
             /\ outcome.kind = "resolved" <=>
                   (job.status = "completed" /\ job.text # "")
             /\ outcome.kind = "raised" =>
                   (outcome.result = NoJob /\ outcome.error.message # <<>>)
       /\ pc \notin Done => outcome.kind = "none"

\* A run that fetched a completed job with its text, after a failed fetch.
C22_Witness ==
    /\ component = "service"
    /\ outcome.kind = "resolved"
    /\ outcome.result.text = "hello world"
    /\ sawFailure

\* C23: when the run has ended on a job the provider reported as failed with
\* the message m, the error startTranscription raised carries m alone, with
\* nothing put before it.
C23_JobErrorMessageVerbatim ==
    (/\ component = "service"
     /\ pc = "raised"
     /\ job.status = "error"
     /\ job.error # "") => outcome.error.message = <<job.error>>

\* C24: a call of startTranscription of the hook that is under way and is
\* not cancelled ends, given that its requests settle and its timers fire:
\* it is cancelled after all, or it is over with the state it has just
\* written being 'completed' with a result or 'error' with an error message,
\* and isTranscribing false in both.
C24_RunEndsCompletedOrError ==
    \A r \in Runs :
       (/\ component = "hook"
        /\ runs[r].kind = "start"
        /\ runs[r].pc \in InFlight
        /\ ~runs[r].cancelled)
       ~> (\/ runs[r].cancelled
           \/ /\ runs[r].pc = "done"
              /\ runs[r].how \in {"completed", "error", "timeout"}
              /\ ~state.isTranscribing
              /\ \/ state.status = "completed" /\ state.result # NoJob
                 \/ state.status = "error" /\ state.error # "null")

\* A call that has ended on the timeout of its polling loop, never cancelled.
C24_Witness ==
    /\ component = "hook"
    /\ \E r \in Runs :
          /\ runs[r].kind = "start"
          /\ runs[r].pc = "done"
          /\ runs[r].how = "timeout"
          /\ ~runs[r].cancelled
          /\ state.status = "error"
          /\ state.error = TimeoutMessage
          /\ ~state.isTranscribing

\* C25: whenever the state of the hook says 'completed' it holds a result,
\* the progress is 100 and isTranscribing is false, whatever calls were made
\* and whenever, calls made while an earlier call is still polling included.
C25_CompletedHasResult ==
    (component = "hook" /\ state.status = "completed") =>
       /\ state.result # NoJob
       /\ state.progress = 100
       /\ ~state.isTranscribing

\* C26: in the request uploadAndTranscribe has built, each of the five
\* feature flags is the value the caller gave for it, false included, and
\* true when the caller gave none, and language_code is the caller's value
\* or 'en'.
C26_RequestFollowsOptions ==
    (component = "request" /\ request # NoRequest) =>
       /\ request.speaker_labels = Coalesce(options.speakerLabels, "true")
       /\ request.sentiment_analysis = Coalesce(options.sentimentAnalysis, "true")
       /\ request.summarization = Coalesce(options.summarization, "true")
       /\ request.redact_pii = Coalesce(options.piiRedaction, "true")
       /\ request.auto_highlights = Coalesce(options.autoHighlights, "true")
       /\ request.language_code = Coalesce(options.languageCode, "en")

C29_SequencesNeverAbsent ==
    (component = "normalizer" /\ normalized # NotNormalized) =>
       LET redactions == IF transcript.pii_redaction_results.isArray
                         THEN transcript.pii_redaction_results.items ELSE <<>>
           highlights == IF HasResults(transcript.auto_highlights_result)
                         THEN transcript.auto_highlights_result.results.items
                         ELSE <<>>
       IN  /\ {"speakers", "piiRedactions", "autoHighlights"} \subseteq DOMAIN normalized
           /\ DOMAIN normalized.speakers = 1 .. Len(normalized.speakers)
           /\ DOMAIN normalized.piiRedactions = 1 .. Len(redactions)
           /\ DOMAIN normalized.autoHighlights = 1 .. Len(highlights)
           /\ \A i \in 1 .. Len(redactions) :
                 /\ normalized.piiRedactions[i].text = redactions[i].text
                 /\ normalized.piiRedactions[i].type = redactions[i].type
           /\ \A i \in 1 .. Len(highlights) :
                 /\ normalized.autoHighlights[i].text = highlights[i].text
                 /\ normalized.autoHighlights[i].rank = highlights[i].rank
                 /\ DOMAIN normalized.autoHighlights[i].timestamps =
                       1 .. Len(normalized.autoHighlights[i].timestamps)

\* The provider sent neither redactions nor the results of the highlights,
\* and speaker_labels as the flag: the three sequences are there and empty.
C29_Witness ==
    /\ component = "normalizer"
    /\ normalized # NotNormalized
    /\ ~transcript.pii_redaction_results.isArray
    /\ transcript.auto_highlights_result = HighlightsResult(Null)
    /\ transcript.speaker_labels = SpeakerLabelsFlag
    /\ ~transcript.utterances.isArray
    /\ normalized.speakers = <<>>
    /\ normalized.piiRedactions = <<>>
    /\ normalized.autoHighlights = <<>>

\* C28: of two successive polls that both find the job processing, the later
\* one reports a strictly larger percentage to the caller than the earlier
\* one, and a percentage between 20 and 100.
C28_ProcessingProgressGrows ==
    [][(/\ component = "service"
        /\ pc = "poll"
        /\ pc' = "poll"
        /\ job.status = "processing"
        /\ job'.status = "processing"
        /\ attempts' = attempts + 1
        /\ thrown' = NoThrow)
       => (/\ callbacks'.lastPct > callbacks.lastPct
           /\ callbacks'.lastPct \in 20 .. 100)]_vars

\* C30: calculateProgress gives 10 for queued, 50 for processing, 100 for
\* completed and 0 for error, whatever the iteration of the loop and
\* whatever the text, the error and the speakers of the result.
C30_ProgressIsLookupOfStatus ==
    (component = "progress" /\ normalized # NotNormalized) =>
       normalized.progress =
          CASE transcript.status = "queued" -> 10
            [] transcript.status = "processing" -> 50
            [] transcript.status = "completed" -> 100
            [] transcript.status = "error" -> 0

\* A processing result with a text, in the last iteration of the loop.
C30_Witness ==
    /\ component = "progress"
    /\ normalized # NotNormalized
    /\ transcript.status = "processing"
    /\ transcript.text # ""
    /\ attempts = maxAttempts - 1
    /\ normalized.progress = 50

====
